---- MODULE Spec2Model ----
(***************************************************************************)
(* Quake-Grade: the synthetic dataset generator (data_loader.py and its    *)
(* legacy twin in app.py), the ingest path (clean_dataset, the validators, *)
(* handle_file_upload, load_base_dataset), the script of app.py, the       *)
(* prediction pipeline (predictions.py), the LLM service and its panel     *)
(* (llm_service.py, llm_insights.py) and the cached functions.             *)
(*                                                                         *)
(* Numbers.  A float is a count of halves: 3 stands for 1.5, and a whole   *)
(* number i is 2*i.  A numeric cell is a record [nan, v]; NaN is the cell  *)
(* with nan = TRUE, and every comparison with NaN is false, as in IEEE 754.*)
(* A categorical cell is a string.                                         *)
(*                                                                         *)
(* Tables.  A DataFrame is [oid, columns]: oid is the object's identity    *)
(* and columns the sequence of its columns, each [name, dtype, values].    *)
(* An Optional value is a sequence: <<>> is None and <<x>> is x.           *)
(***************************************************************************)
EXTENDS Integers, Sequences, FiniteSets, TLC

VARIABLES
    base_df,        \* the reference table handed to the generator / the cached base dataset
    n_samples,      \* Optional[int]: the n_samples argument of the last generator call
    ret,            \* Optional[table]: what the last operation returned
    raised,         \* "none", or the exception that left the last operation
    op,             \* the last operation that ran
    nextOid,        \* identity of the next DataFrame object to be built
    session,        \* st.session_state of app.py: df, upload_valido, colunas_faltando
    uploaded_file,  \* Optional[file]: what st.file_uploader holds
    read_df,        \* Optional[table]: the table pd.read_csv produced in the last ingest
    messages,       \* the st.error / st.warning / st.success calls of the last operation
    llm_session,    \* st.session_state of the AI panel: the three results and llm_errors
    cache,          \* the entries of the st.cache_data / st.cache_resource functions
    now,            \* the clock, in seconds
    trace,          \* what the last operation did: requests issued, value returned
    world,          \* outside the process: the OPENAI_API_KEY secret and the model file
    cell,           \* one generated numeric cell: the sample, the clipped sample, the value
    rng             \* Optional: the stream np.random draws from, and what the build fixes

vars == <<base_df, n_samples, ret, raised, op, nextOid, session, uploaded_file,
          read_df, messages, llm_session, cache, now, trace, world, cell, rng>>

\* the state of the AI panel, the caches, the prediction pipeline and the cell
panelVars == <<llm_session, cache, now, trace, world, cell, rng>>

\* the state of the generator and of the ingest path
ingestVars == <<base_df, n_samples, ret, raised, session, uploaded_file, read_df>>

----------------------------------------------------------------------------
(* Bounds of the model *)

MaxRows == 2
MaxSamples == 2

----------------------------------------------------------------------------
(* Floats *)

F(h) == [nan |-> FALSE, v |-> h]
NaN == [nan |-> TRUE, v |-> 0]
FromInt(i) == F(2 * i)

\* variant: a value on the bound compares as below it
Lt_OrEqual(a, b) == ~a.nan /\ ~b.nan /\ a.v <= b.v

Lt(a, b) == ~a.nan /\ ~b.nan /\ a.v < b.v
Gt(a, b) == ~a.nan /\ ~b.nan /\ a.v > b.v
Le(a, b) == ~a.nan /\ ~b.nan /\ a.v <= b.v

IsWhole(x) == ~x.nan /\ x.v % 2 = 0

None == <<>>
Some(x) == <<x>>

----------------------------------------------------------------------------
(* pandas: columns, tables and the column statistics the generator reads *)

NUMERIC_DTYPES == {"int64", "float64"}

is_numeric_dtype(col) == col.dtype \in NUMERIC_DTYPES
is_integer_dtype(col) == col.dtype = "int64"

ColumnNames(df) == [i \in 1..Len(df.columns) |-> df.columns[i].name]
HasColumn(df, name) == \E i \in 1..Len(df.columns) : df.columns[i].name = name
Column(df, name) ==
    df.columns[CHOOSE i \in 1..Len(df.columns) : df.columns[i].name = name]

\* len(df)
NRows(df) == IF df.columns = <<>> THEN 0 ELSE Len(df.columns[1].values)

RECURSIVE SumV(_)
SumV(vals) == IF vals = <<>> THEN 0 ELSE vals[1].v + SumV(Tail(vals))

RECURSIVE SumSq(_)
SumSq(vals) == IF vals = <<>> THEN 0 ELSE vals[1].v * vals[1].v + SumSq(Tail(vals))

\* the values of a column that are not NaN (skipna=True)
NotNa(vals) == {vals[i].v : i \in {j \in 1..Len(vals) : ~vals[j].nan}}

\* Series.min() / Series.max(): NaN values are skipped; NaN on a column with
\* no value left
SeriesMin(vals) ==
    IF NotNa(vals) = {} THEN NaN
    ELSE F(CHOOSE m \in NotNa(vals) : \A x \in NotNa(vals) : m <= x)

SeriesMax(vals) ==
    IF NotNa(vals) = {} THEN NaN
    ELSE F(CHOOSE m \in NotNa(vals) : \A x \in NotNa(vals) : m >= x)

\* Series.mean(): NaN on an empty column.  The quotient is exact whenever all
\* values are equal, the one case in which the value of the mean decides a sample.
SeriesMean(vals) ==
    IF vals = <<>> THEN NaN ELSE F(SumV(vals) \div Len(vals))

\* Series.std() (ddof = 1), by class: "nan" below two rows (0/0), "zero" when
\* n * sum(x^2) = (sum x)^2, "pos" otherwise.
SeriesStd(vals) ==
    IF Len(vals) < 2 THEN "nan"
    ELSE IF Len(vals) * SumSq(vals) = SumV(vals) * SumV(vals) THEN "zero"
    ELSE "pos"

\* Series.value_counts(normalize=True).index: the distinct observed labels
value_counts(vals) == {vals[i] : i \in 1..Len(vals)}

----------------------------------------------------------------------------
(* The reference tables the generator is run on *)

FloatVals == {1, 3}
IntVals == {0, 4}
Labels == {"Baja", "Alta"}

\* every reference column has its dtype: a float64, an int64 and an object column
RefDtype(name) ==
    CASE name = "Magnitud" -> "float64"
      [] name = "Profundidad" -> "int64"
      [] OTHER -> "object"

RefNames == {"Magnitud", "Profundidad", "Gravedad"}

Schemas == {<<a>> : a \in RefNames}
              \cup {s \in RefNames \X RefNames : s[1] # s[2]}

RefCells(dtype) ==
    CASE dtype = "float64" -> {F(h) : h \in FloatVals}
      [] dtype = "int64" -> {F(h) : h \in IntVals}
      [] OTHER -> Labels

RefColumns(name, n) ==
    {[name |-> name, dtype |-> RefDtype(name), values |-> vs] :
        vs \in [1..n -> RefCells(RefDtype(name))]}

RefColumnSeqs(schema, n) ==
    IF Len(schema) = 1
    THEN {<<c>> : c \in RefColumns(schema[1], n)}
    ELSE {<<c, d>> : c \in RefColumns(schema[1], n), d \in RefColumns(schema[2], n)}

RefTables ==
    {[oid |-> 1, columns |-> cs] :
        cs \in UNION {RefColumnSeqs(s, n) : s \in Schemas, n \in 0..MaxRows}}

NSampleArgs == {None} \cup {Some(n) : n \in 0..MaxSamples}

\* the reals a normal draw can land on: a window that reaches below and above
\* every reference value
RefVals == FloatVals \cup IntVals
DrawLow == (CHOOSE m \in RefVals : \A x \in RefVals : m <= x) - 1
DrawHigh == (CHOOSE m \in RefVals : \A x \in RefVals : m >= x) + 1
Draws == {F(h) : h \in DrawLow..DrawHigh}

----------------------------------------------------------------------------
(* numpy *)

\* float64 sum-and-divide of n copies of k may land on a neighbour of k
\* (np.mean([0.1, 0.1, 0.1]) is not 0.1); an int64 column's mean is exact
FloatMeanError(dtype) == IF dtype = "float64" THEN {-1, 0, 1} ELSE {0}

\* np.random.normal(loc, scale, size): the values one sample can take.  A NaN
\* loc or scale is accepted and gives NaN; scale 0 gives loc; otherwise any real.
np_random_normal(loc, scale, dtype) ==
    IF loc.nan \/ scale = "nan" THEN {NaN}
    ELSE IF scale = "zero" THEN {F(loc.v + e) : e \in FloatMeanError(dtype)}
    ELSE Draws

\* variant: the sample is passed on as drawn
np_clip_None(x, lo, hi) == x

\* np.clip(x, lo, hi) = minimum(maximum(x, lo), hi); NaN propagates
np_clip(x, lo, hi) ==
    IF x.nan \/ lo.nan \/ hi.nan THEN NaN
    ELSE LET m == IF x.v < lo.v THEN lo ELSE x
         IN IF m.v > hi.v THEN hi ELSE m

\* np.round: to the nearest whole number, ties to the even one; NaN stays NaN
np_round(x) ==
    IF x.nan THEN NaN
    ELSE IF x.v % 2 = 0 THEN x
    ELSE IF (x.v - 1) % 4 = 0 THEN F(x.v - 1)
    ELSE F(x.v + 1)

\* what the cast of NaN to int64 leaves: INT64_MIN on x86-64, 0 on other builds
INT_MIN == 0 - 2^20
astype_int(x) == IF x.nan THEN {F(INT_MIN), F(0)} ELSE {x}

\* np.random.choice(categories, size, p): raises ValueError on an empty population
choice_raises(categories) == categories = {}

----------------------------------------------------------------------------
(* generate_random_dataset (data_loader.py) *)

\* the values one generated cell of a numeric column can take
numeric_values(col) ==
    LET mean == SeriesMean(col.values)
        std == SeriesStd(col.values)
        min_val == SeriesMin(col.values)
        max_val == SeriesMax(col.values)
    IN UNION {IF is_integer_dtype(col)
              THEN astype_int(np_round(np_clip(s, min_val, max_val)))
              ELSE {np_clip(s, min_val, max_val)} :
                  s \in np_random_normal(mean, std, col.dtype)}

\* variant: labels drawn from the global label set instead of the observed ones
categorical_values_AnyLabel(col) == Labels

\* the values one generated cell of a categorical column can take
categorical_values(col) == value_counts(col.values)

\* the columns random_df[col] can be set to, n cells drawn independently
random_column(col, n) ==
    {[name |-> col.name, dtype |-> col.dtype, values |-> vs] :
        vs \in [1..n -> IF is_numeric_dtype(col) THEN numeric_values(col)
                        ELSE categorical_values(col)]}

RECURSIVE random_columns(_, _)
random_columns(cols, n) ==
    IF cols = <<>> THEN {<<>>}
    ELSE {<<c>> \o rest : c \in random_column(cols[1], n),
                          rest \in random_columns(Tail(cols), n)}

\* the loop stops at the first categorical column with no observed label
generator_raises(df) ==
    \E i \in 1..Len(df.columns) :
        /\ ~is_numeric_dtype(df.columns[i])
        /\ choice_raises(value_counts(df.columns[i].values))

\* variant: the n_samples argument is ignored
default_n_samples_Ignored(df, arg) == NRows(df)

default_n_samples(df, arg) == IF arg = None THEN NRows(df) ELSE arg[1]

\* every outcome of one call: what was raised and what was returned
generate_random_dataset(df, arg, oid) ==
    IF generator_raises(df)
    THEN {[raised |-> "ValueError", ret |-> None]}
    ELSE {[raised |-> "none", ret |-> Some([oid |-> oid, columns |-> cs])] :
              cs \in random_columns(df.columns, default_n_samples(df, arg))}

----------------------------------------------------------------------------
(* gerar_dataset_randomico (app.py), the generator the legacy script carries *)

gerar_vals(col) ==
    LET mean == SeriesMean(col.values)
        std == SeriesStd(col.values)
        min_val == SeriesMin(col.values)
        max_val == SeriesMax(col.values)
    IN UNION {IF is_integer_dtype(col)
              THEN astype_int(np_round(np_clip(v, min_val, max_val)))
              ELSE {np_clip(v, min_val, max_val)} :
                  v \in np_random_normal(mean, std, col.dtype)}

gerar_categorias(col) == value_counts(col.values)

gerar_coluna(col, n) ==
    {[name |-> col.name, dtype |-> col.dtype, values |-> vs] :
        vs \in [1..n -> IF is_numeric_dtype(col) THEN gerar_vals(col)
                        ELSE gerar_categorias(col)]}

RECURSIVE gerar_colunas(_, _)
gerar_colunas(cols, n) ==
    IF cols = <<>> THEN {<<>>}
    ELSE {<<c>> \o rest : c \in gerar_coluna(cols[1], n),
                          rest \in gerar_colunas(Tail(cols), n)}

gerar_dataset_randomico(df, arg, oid) ==
    IF \E i \in 1..Len(df.columns) :
          /\ ~is_numeric_dtype(df.columns[i])
          /\ choice_raises(value_counts(df.columns[i].values))
    THEN {[raised |-> "ValueError", ret |-> None]}
    ELSE {[raised |-> "none", ret |-> Some([oid |-> oid, columns |-> cs])] :
              cs \in gerar_colunas(df.columns, IF arg = None THEN NRows(df) ELSE arg[1])}

----------------------------------------------------------------------------
(* The specification of the generator *)

NoSession == [df |-> None, upload_valido |-> TRUE, colunas_faltando |-> <<>>]

\* the three AI features of the panel
Features == {"insights", "risk", "quality"}

\* _initialize_llm_session_state: no result, no error
NoLlmSession ==
    [llm_insights |-> None, llm_risk_assessment |-> None,
     llm_quality_analysis |-> None, llm_errors |-> [f \in Features |-> None]]

\* no cached function has been called yet
NoCache == [load_base_dataset |-> None, load_ml_model |-> None, llm |-> {}]

\* nothing ran: no API request, no load_model, predict_model or read_csv call,
\* nothing returned, no table out of predict_model, no LLMService built, no
\* reply of the API, no cache key looked up, no expired cache entry replaced
NoTrace ==
    [requests |-> 0, loads |-> 0, predicts |-> 0, reads |-> 0, value |-> None,
     output |-> None, service |-> None, reply |-> None, key |-> None,
     replaced |-> FALSE]

\* no OPENAI_API_KEY secret, an OpenAI constructor and a load_model that do not
\* raise, no file at BASE_DATASET_PATH
NoWorld ==
    [api_key |-> None, client_fault |-> None, model_fault |-> None,
     base_file |-> None]

PanelIdle ==
    /\ llm_session = NoLlmSession
    /\ cache = NoCache
    /\ now = 0
    /\ trace = NoTrace
    /\ world = NoWorld
    /\ cell = None
    /\ rng = None

Init ==
    /\ base_df \in {Some(t) : t \in RefTables}
    /\ n_samples = None
    /\ ret = None
    /\ raised = "none"
    /\ op = "init"
    /\ nextOid = 2
    /\ session = NoSession
    /\ uploaded_file = None
    /\ read_df = None
    /\ messages = <<>>
    /\ PanelIdle

\* variant: the result is built in the reference itself (random_df = base_df)
GenerateRandomDataset_InPlace ==
    /\ op = "init"
    /\ \E arg \in NSampleArgs :
         \E out \in generate_random_dataset(base_df[1], arg, base_df[1].oid) :
            /\ n_samples' = arg
            /\ ret' = out.ret
            /\ raised' = out.raised
            /\ base_df' = IF out.ret = None THEN base_df ELSE out.ret
    /\ op' = "generate_random_dataset"
    /\ nextOid' = nextOid
    /\ UNCHANGED <<session, uploaded_file, read_df, messages>>
    /\ UNCHANGED panelVars

\* one call on the reference drawn by Init
GenerateRandomDataset ==
    /\ op = "init"
    /\ \E arg \in NSampleArgs :
         \E out \in generate_random_dataset(base_df[1], arg, nextOid) :
            /\ n_samples' = arg
            /\ ret' = out.ret
            /\ raised' = out.raised
    /\ op' = "generate_random_dataset"
    /\ nextOid' = nextOid + 1
    /\ UNCHANGED <<base_df, session, uploaded_file, read_df, messages>>
    /\ UNCHANGED panelVars

GerarDatasetRandomico ==
    /\ op = "init"
    /\ \E arg \in NSampleArgs :
         \E out \in gerar_dataset_randomico(base_df[1], arg, nextOid) :
            /\ n_samples' = arg
            /\ ret' = out.ret
            /\ raised' = out.raised
    /\ op' = "gerar_dataset_randomico"
    /\ nextOid' = nextOid + 1
    /\ UNCHANGED <<base_df, session, uploaded_file, read_df, messages>>
    /\ UNCHANGED panelVars

Next ==
    \/ GenerateRandomDataset
    \/ GerarDatasetRandomico

Spec == Init /\ [][Next]_vars

----------------------------------------------------------------------------
(* The two generators run on the same draws: np.random reseeded before each *)
(* call, so both calls read the same stream                                  *)

\* one draw of the stream: the real a normal sample of positive scale lands
\* on, the label a choice lands on
StreamDraws ==
    {[z |-> F(DrawLow), label |-> "Baja"], [z |-> F(1), label |-> "Alta"],
     [z |-> F(DrawHigh), label |-> "Alta"]}

\* a stream, repeated with period 2
Streams == [1..2 -> StreamDraws]

\* what does not depend on the stream but on the build: the float error of
\* the mean of equal values, and what the cast of NaN to int64 leaves
RngStates ==
    {[stream |-> st, mean_error |-> e, nan_cast |-> c] :
        st \in Streams, e \in {-1, 0, 1}, c \in {INT_MIN, 0}}

\* the k-th draw of the stream
draw(state, k) == state.stream[((k - 1) % Len(state.stream)) + 1]

\* the outcome a draw selects among those possible
pick(outcomes, wish) == IF wish \in outcomes THEN wish ELSE CHOOSE x \in outcomes : TRUE

\* data_loader.py lines 48-69 for one cell of random_df[col]
random_cell(col, d, state) ==
    IF is_numeric_dtype(col)
    THEN LET mean == SeriesMean(col.values)
             std == SeriesStd(col.values)
             min_val == SeriesMin(col.values)
             max_val == SeriesMax(col.values)
             value == pick(np_random_normal(mean, std, col.dtype),
                           IF std = "zero" THEN F(mean.v + state.mean_error) ELSE d.z)
             clipped == np_clip(value, min_val, max_val)
         IN IF is_integer_dtype(col)
            THEN pick(astype_int(np_round(clipped)), F(state.nan_cast))
            ELSE clipped
    ELSE pick(value_counts(col.values), d.label)

\* variant: the samples of a column are consumed from the start of the stream
seeded_column_Rewound(df, i, n, state) ==
    [name |-> df.columns[i].name, dtype |-> df.columns[i].dtype,
     values |-> [k \in 1..n |-> random_cell(df.columns[i], draw(state, k), state)]]

\* column i of the result takes the draws (i-1)*n+1 .. i*n
seeded_column(df, i, n, state) ==
    [name |-> df.columns[i].name, dtype |-> df.columns[i].dtype,
     values |-> [k \in 1..n |->
                    random_cell(df.columns[i], draw(state, (i - 1) * n + k), state)]]

generate_random_dataset_seeded(df, arg, oid, state) ==
    LET n_samples_ == default_n_samples(df, arg)
    IN IF generator_raises(df)
       THEN [raised |-> "ValueError", ret |-> None]
       ELSE [raised |-> "none",
             ret |-> Some([oid |-> oid,
                           columns |-> [i \in 1..Len(df.columns) |->
                                           seeded_column(df, i, n_samples_, state)]])]

\* app.py lines 56-70 for one cell of df_random[col]
celula(col, d, state) ==
    IF is_numeric_dtype(col)
    THEN LET mean == SeriesMean(col.values)
             std == SeriesStd(col.values)
             min_val == SeriesMin(col.values)
             max_val == SeriesMax(col.values)
             vals == pick(np_random_normal(mean, std, col.dtype),
                          IF std = "zero" THEN F(mean.v + state.mean_error) ELSE d.z)
             clipped == np_clip(vals, min_val, max_val)
         IN IF is_integer_dtype(col)
            THEN pick(astype_int(np_round(clipped)), F(state.nan_cast))
            ELSE clipped
    ELSE pick(gerar_categorias(col), d.label)

coluna(df, i, n, state) ==
    [name |-> df.columns[i].name, dtype |-> df.columns[i].dtype,
     values |-> [k \in 1..n |-> celula(df.columns[i], draw(state, (i - 1) * n + k), state)]]

gerar_dataset_randomico_seeded(df, arg, oid, state) ==
    LET n == IF arg = None THEN NRows(df) ELSE arg[1]
    IN IF \E i \in 1..Len(df.columns) :
             /\ ~is_numeric_dtype(df.columns[i])
             /\ choice_raises(value_counts(df.columns[i].values))
       THEN [raised |-> "ValueError", ret |-> None]
       ELSE [raised |-> "none",
             ret |-> Some([oid |-> oid,
                           columns |-> [i \in 1..Len(df.columns) |->
                                           coluna(df, i, n, state)]])]

InitTwins ==
    /\ base_df \in {Some(t) : t \in RefTables}
    /\ n_samples \in NSampleArgs
    /\ ret = None
    /\ raised = "none"
    /\ op = "init"
    /\ nextOid = 2
    /\ session = NoSession
    /\ uploaded_file = None
    /\ read_df = None
    /\ messages = <<>>
    /\ llm_session = NoLlmSession
    /\ cache = NoCache
    /\ now = 0
    /\ trace = NoTrace
    /\ world = NoWorld
    /\ cell = None
    /\ rng \in {Some(state) : state \in RngStates}

\* generate_random_dataset(base_df, n_samples) on the stream
SeededGenerateRandomDataset ==
    /\ op = "init"
    /\ LET out == generate_random_dataset_seeded(base_df[1], n_samples, nextOid, rng[1])
       IN /\ ret' = out.ret
          /\ raised' = out.raised
    /\ op' = "generate_random_dataset"
    /\ nextOid' = nextOid + 1
    /\ UNCHANGED <<base_df, n_samples, session, uploaded_file, read_df, messages>>
    /\ UNCHANGED panelVars

\* np.random reseeded, then gerar_dataset_randomico(base_df, n_samples) on the
\* same stream; trace keeps what it returned and raised
SeededGerarDatasetRandomico ==
    /\ op = "generate_random_dataset"
    /\ LET out == gerar_dataset_randomico_seeded(base_df[1], n_samples, nextOid, rng[1])
       IN trace' = [NoTrace EXCEPT !.output = out.ret, !.value = Some(out.raised)]
    /\ op' = "gerar_dataset_randomico"
    /\ nextOid' = nextOid + 1
    /\ UNCHANGED ingestVars
    /\ UNCHANGED <<messages, llm_session, cache, now, world, cell, rng>>

NextTwins ==
    \/ SeededGenerateRandomDataset
    \/ SeededGerarDatasetRandomico

SpecTwins == InitTwins /\ [][NextTwins]_vars

----------------------------------------------------------------------------
(* validators.py *)

EXPECTED_COLUMNS == <<"Magnitud", "Latitud", "Longitud", "Profundidad">>

IsMissing(df, name) == ~HasColumn(df, name)

\* variant: the required columns are not checked
validate_columns_Skipped(df) == [is_valid |-> TRUE, errors |-> <<>>]

validate_columns(df) ==
    LET missing_columns == SelectSeq(EXPECTED_COLUMNS, LAMBDA c : IsMissing(df, c))
    IN [is_valid |-> Len(missing_columns) = 0, errors |-> missing_columns]

IsNonNumeric(df, name) == HasColumn(df, name) /\ ~is_numeric_dtype(Column(df, name))

validate_data_types(df) ==
    LET errors == SelectSeq(EXPECTED_COLUMNS, LAMBDA c : IsNonNumeric(df, c))
    IN [is_valid |-> Len(errors) = 0, errors |-> errors]

ColMin(df, name) == SeriesMin(Column(df, name).values)

ColMax(df, name) == SeriesMax(Column(df, name).values)

validate_data_ranges(df) ==
    LET e1 == IF HasColumn(df, "Magnitud")
                 /\ (Lt(ColMin(df, "Magnitud"), FromInt(0))
                     \/ Gt(ColMax(df, "Magnitud"), FromInt(10)))
              THEN <<"Magnitude deve estar entre 0 e 10">> ELSE <<>>
        e2 == IF HasColumn(df, "Latitud")
                 /\ (Lt(ColMin(df, "Latitud"), FromInt(-90))
                     \/ Gt(ColMax(df, "Latitud"), FromInt(90)))
              THEN <<"Latitude deve estar entre -90 e 90">> ELSE <<>>
        e3 == IF HasColumn(df, "Longitud")
                 /\ (Lt(ColMin(df, "Longitud"), FromInt(-180))
                     \/ Gt(ColMax(df, "Longitud"), FromInt(180)))
              THEN <<"Longitude deve estar entre -180 e 180">> ELSE <<>>
        e4 == IF HasColumn(df, "Profundidad")
                 /\ Lt(ColMin(df, "Profundidad"), FromInt(0))
              THEN <<"Profundidade nao pode ser negativa">> ELSE <<>>
        errors == e1 \o e2 \o e3 \o e4
    IN [is_valid |-> Len(errors) = 0, errors |-> errors]

IsNotGravedad(col) == col.name # "Gravedad"

\* variant: the table is returned as it came
clean_dataset_Kept(df, oid) == df

\* df.drop(columns=["Gravedad"]) builds a new table; without the column the
\* argument itself is returned
clean_dataset(df, oid) ==
    IF HasColumn(df, "Gravedad")
    THEN [oid |-> oid, columns |-> SelectSeq(df.columns, IsNotGravedad)]
    ELSE df

----------------------------------------------------------------------------
(* The CSV files the ingest path is run on *)

MaxCsvRows == 1

CsvDtype(name) == IF name = "Profundidad" THEN "int64" ELSE "float64"

\* per column, values on both sides of a bound of its range
CsvCells(name) ==
    CASE name = "Magnitud" -> {F(-1), FromInt(0), FromInt(10), F(21)}
      [] name = "Latitud" -> {FromInt(-91), FromInt(90)}
      [] name = "Longitud" -> {FromInt(-180), FromInt(181)}
      [] OTHER -> {FromInt(-1), FromInt(0)}

\* a column of the file: absent, numeric, or text
CsvColumn(name, n) ==
    {<<>>}
      \cup {<<[name |-> name, dtype |-> CsvDtype(name), values |-> vs]>> :
                vs \in [1..n -> CsvCells(name)]}
      \cup {<<[name |-> name, dtype |-> "object", values |-> [i \in 1..n |-> "x"]]>>}

GravedadColumn(n) ==
    <<[name |-> "Gravedad", dtype |-> "object", values |-> [i \in 1..n |-> "Alta"]]>>

CsvTablesOf(n) ==
    {[oid |-> 0, columns |-> cs] :
        cs \in UNION {{m \o a \o o \o p,
                       GravedadColumn(n) \o m \o a \o o \o p,
                       m \o a \o o \o p \o GravedadColumn(n)} :
                          m \in CsvColumn("Magnitud", n), a \in CsvColumn("Latitud", n),
                          o \in CsvColumn("Longitud", n), p \in CsvColumn("Profundidad", n)}
              \ {<<>>}}

CsvTables == UNION {CsvTablesOf(n) : n \in 0..MaxCsvRows}

\* the statement of the ingest path at which pandas raises on this file
Steps == {"read_csv", "clean_dataset", "validate_columns", "validate_data_types",
          "validate_data_ranges"}

CsvFiles ==
    {[table |-> t, fault |-> "none"] : t \in CsvTables}
      \cup {[table |-> t, fault |-> f] : t \in CsvTablesOf(0), f \in Steps}

----------------------------------------------------------------------------
(* data_loader.py: handle_file_upload and load_base_dataset *)

Msg(kind, text) == [kind |-> kind, text |-> text]
Msgs(kind, texts) == [i \in 1..Len(texts) |-> Msg(kind, texts[i])]

\* variant: no except clause, the exception leaves handle_file_upload
UploadCaught_Propagates(read) ==
    [ret |-> None, raised |-> "Exception", read |-> read, messages |-> <<>>]

\* except Exception as e: st.error(...); return None
UploadCaught(read) ==
    [ret |-> None, raised |-> "none", read |-> read,
     messages |-> <<Msg("error", "Erro ao carregar arquivo")>>]

handle_file_upload(uploaded, oid) ==
    IF uploaded = None
    THEN [ret |-> None, raised |-> "none", read |-> None, messages |-> <<>>]
    ELSE
    LET file == uploaded[1]
        read == [oid |-> oid, columns |-> file.table.columns]
        df == clean_dataset(read, oid + 1)
        columns == validate_columns(df)
        types == validate_data_types(df)
        ranges == validate_data_ranges(df)
    IN IF file.fault = "read_csv" THEN UploadCaught(None)
       ELSE IF file.fault = "clean_dataset" THEN UploadCaught(Some(read))
       ELSE IF file.fault = "validate_columns" THEN UploadCaught(Some(read))
       ELSE IF ~columns.is_valid
       THEN [ret |-> None, raised |-> "none", read |-> Some(read),
             messages |-> <<Msg("error", columns.errors)>>]
       ELSE IF file.fault = "validate_data_types" THEN UploadCaught(Some(read))
       ELSE IF ~types.is_valid
       THEN [ret |-> None, raised |-> "none", read |-> Some(read),
             messages |-> Msgs("error", types.errors)]
       ELSE IF file.fault = "validate_data_ranges" THEN UploadCaught(Some(read))
       ELSE [ret |-> Some(df), raised |-> "none", read |-> Some(read),
             messages |-> Msgs("warning", ranges.errors)
                            \o <<Msg("success", "Arquivo carregado com sucesso!")>>]

\* pd.read_csv(BASE_DATASET_PATH) then clean_dataset; nothing catches what
\* read_csv or clean_dataset raise
load_base_dataset(file, oid) ==
    LET read == [oid |-> oid, columns |-> file.table.columns]
    IN IF file.fault = "read_csv"
       THEN [ret |-> None, raised |-> "Exception", read |-> None]
       ELSE IF file.fault = "clean_dataset"
       THEN [ret |-> None, raised |-> "Exception", read |-> Some(read)]
       ELSE [ret |-> Some(clean_dataset(read, oid + 1)), raised |-> "none",
             read |-> Some(read)]

----------------------------------------------------------------------------
(* app.py: one run of the script, lines 74-117 *)

colunas_esperadas == <<"Magnitud", "Latitud", "Longitud", "Profundidad">>

validar_dataset(df) ==
    LET faltando == SelectSeq(colunas_esperadas, LAMBDA c : ~HasColumn(df, c))
    IN [valido |-> Len(faltando) = 0, faltando |-> faltando]

\* variant: an upload that fails leaves the dataset of the session in place
upload_block_KeepsDf(sess, uploaded, oid) ==
    IF uploaded = None
    THEN [session |-> sess, messages |-> <<>>]
    ELSE
    LET file == uploaded[1]
        read == [oid |-> oid, columns |-> file.table.columns]
        df_uploaded == [oid |-> oid + 1,
                        columns |-> SelectSeq(read.columns, IsNotGravedad)]
        checked == validar_dataset(df_uploaded)
    IN IF file.fault = "none" /\ checked.valido
       THEN [session |-> [df |-> Some(df_uploaded), upload_valido |-> TRUE,
                          colunas_faltando |-> <<>>],
             messages |-> <<>>]
       ELSE [session |-> [df |-> sess.df, upload_valido |-> FALSE,
                          colunas_faltando |-> checked.faltando],
             messages |-> <<>>]

\* lines 92-111: the upload is read, stripped of Gravedad and validated inside
\* one try block; any exception marks the upload invalid
upload_block(sess, uploaded, oid) ==
    IF uploaded = None
    THEN [session |-> sess, messages |-> <<>>]
    ELSE
    LET file == uploaded[1]
        read == [oid |-> oid, columns |-> file.table.columns]
        df_uploaded == IF HasColumn(read, "Gravedad")
                       THEN [oid |-> oid + 1,
                             columns |-> SelectSeq(read.columns, IsNotGravedad)]
                       ELSE read
        checked == validar_dataset(df_uploaded)
    IN IF file.fault \in {"read_csv", "clean_dataset", "validate_columns"}
       THEN [session |-> [df |-> None, upload_valido |-> FALSE,
                          colunas_faltando |-> <<>>],
             messages |-> <<Msg("error", "Erro ao carregar arquivo")>>]
       ELSE IF checked.valido
       THEN [session |-> [df |-> Some(df_uploaded), upload_valido |-> TRUE,
                          colunas_faltando |-> <<>>],
             messages |-> <<Msg("success", "Arquivo carregado com sucesso!")>>]
       ELSE [session |-> [df |-> None, upload_valido |-> FALSE,
                          colunas_faltando |-> checked.faltando],
             messages |-> <<>>]

\* every outcome of one run: the upload block, then the random-dataset block
\* (lines 113-117), whose call of gerar_dataset_randomico nothing guards
app_script(sess, uploaded, usar_dataset_randomico, app_dataset, oid) ==
    LET up == upload_block(sess, uploaded, oid)
    IN IF ~usar_dataset_randomico
       THEN {[session |-> up.session, raised |-> "none", messages |-> up.messages]}
       ELSE {IF g.raised # "none"
             THEN [session |-> up.session, raised |-> g.raised, messages |-> up.messages]
             ELSE [session |-> [df |-> g.ret, upload_valido |-> TRUE,
                                colunas_faltando |-> <<>>],
                   raised |-> "none",
                   messages |-> up.messages
                      \o <<Msg("success", "Dataset randomico gerado com sucesso!")>>] :
                g \in gerar_dataset_randomico(app_dataset, None, oid + 2)}

----------------------------------------------------------------------------
(* The specification of the ingest path *)

InitUpload ==
    /\ base_df = None
    /\ n_samples = None
    /\ ret = None
    /\ raised = "none"
    /\ op = "init"
    /\ nextOid = 1
    /\ session = NoSession
    /\ uploaded_file = None
    /\ read_df = None
    /\ messages = <<>>
    /\ PanelIdle

\* the user puts a file into st.file_uploader
FileUploader ==
    /\ op = "init"
    /\ \E file \in CsvFiles : uploaded_file' = Some(file)
    /\ op' = "file_uploader"
    /\ UNCHANGED <<base_df, n_samples, ret, raised, nextOid, session, read_df, messages>>
    /\ UNCHANGED panelVars

\* one run of handle_file_upload, with or without a file in the uploader
HandleFileUpload ==
    /\ op \in {"init", "file_uploader"}
    /\ LET out == handle_file_upload(uploaded_file, nextOid)
       IN /\ ret' = out.ret
          /\ raised' = out.raised
          /\ read_df' = out.read
          /\ messages' = out.messages
    /\ op' = "handle_file_upload"
    /\ nextOid' = nextOid + 2
    /\ UNCHANGED <<base_df, n_samples, session, uploaded_file>>
    /\ UNCHANGED panelVars

\* the first (uncached) call of load_base_dataset, on the file at BASE_DATASET_PATH
LoadBaseDataset ==
    /\ op = "init"
    /\ \E file \in CsvFiles :
         LET out == load_base_dataset(file, nextOid)
         IN /\ ret' = out.ret
            /\ raised' = out.raised
            /\ read_df' = out.read
            /\ base_df' = IF out.raised = "none" THEN out.ret ELSE base_df
    /\ op' = "load_base_dataset"
    /\ nextOid' = nextOid + 2
    /\ UNCHANGED <<n_samples, session, uploaded_file, messages>>
    /\ UNCHANGED panelVars

\* the run of app.py that an upload (or a start with no file) triggers: the
\* random-dataset button reads False in it
AppScriptRun ==
    /\ op \in {"init", "file_uploader"}
    /\ \E out \in app_script(session, uploaded_file, FALSE, base_df, nextOid) :
         /\ session' = out.session
         /\ raised' = out.raised
         /\ messages' = out.messages
    /\ op' = "app.py"
    /\ nextOid' = nextOid + 3
    /\ UNCHANGED <<base_df, n_samples, ret, uploaded_file, read_df>>
    /\ UNCHANGED panelVars

NextUpload ==
    \/ FileUploader
    \/ HandleFileUpload
    \/ LoadBaseDataset
    \/ AppScriptRun

SpecUpload == InitUpload /\ [][NextUpload]_vars

----------------------------------------------------------------------------
(* validate_data_ranges applied to one table (validators.py, lines 24-57) *)

\* the cells of a numeric column of the table: those of a file, or a missing
\* value
RangeCells(name) == CsvCells(name) \cup {NaN}

HasNa(vs) == \E i \in 1..Len(vs) : vs[i].nan

\* a column of the table: absent, or numeric with 0..n rows (an integer
\* column holds no missing value)
RangeColumn(name, n) ==
    {<<>>}
      \cup {<<[name |-> name,
               dtype |-> IF HasNa(vs) THEN "float64" ELSE CsvDtype(name),
               values |-> vs]>> : vs \in [1..n -> RangeCells(name)]}

RangeTablesOf(n) ==
    {[oid |-> 0, columns |-> m \o a \o o \o p] :
        m \in RangeColumn("Magnitud", n), a \in RangeColumn("Latitud", n),
        o \in RangeColumn("Longitud", n), p \in RangeColumn("Profundidad", n)}

RangeTables == UNION {RangeTablesOf(n) : n \in 0..MaxCsvRows}

InitRanges ==
    /\ base_df = None
    /\ n_samples = None
    /\ ret = None
    /\ raised = "none"
    /\ op = "init"
    /\ nextOid = 1
    /\ session = NoSession
    /\ uploaded_file = None
    /\ read_df \in {Some(df) : df \in RangeTables}
    /\ messages = <<>>
    /\ PanelIdle

\* is_valid, errors = validate_data_ranges(df)
ValidateDataRanges ==
    /\ op = "init"
    /\ ret' = Some(validate_data_ranges(read_df[1]))
    /\ op' = "validate_data_ranges"
    /\ UNCHANGED <<base_df, n_samples, raised, nextOid, session, uploaded_file,
                   read_df, messages>>
    /\ UNCHANGED panelVars

NextRanges == ValidateDataRanges

SpecRanges == InitRanges /\ [][NextRanges]_vars

----------------------------------------------------------------------------
(* One sample of generate_random_dataset (data_loader.py, lines 46-59), step *)
(* by step: the draw, the clip, the rounding and the cast                    *)

\* the numeric reference columns a sample is drawn for
CellColumns ==
    UNION {RefColumns(name, n) : name \in {"Magnitud", "Profundidad"},
                                 n \in 0..(MaxRows + 1)}

InitCell ==
    /\ base_df \in {Some([oid |-> 1, columns |-> <<c>>]) : c \in CellColumns}
    /\ n_samples = None
    /\ ret = None
    /\ raised = "none"
    /\ op = "init"
    /\ nextOid = 2
    /\ session = NoSession
    /\ uploaded_file = None
    /\ read_df = None
    /\ messages = <<>>
    /\ PanelIdle

\* one element of np.random.normal(mean, std, n_samples) taken through
\* np.clip(values, min_val, max_val) and, for an integer column, .round().astype(int)
GenerateCell ==
    /\ op = "init"
    /\ LET col == base_df[1].columns[1]
           mean == SeriesMean(col.values)
           std == SeriesStd(col.values)
           min_val == SeriesMin(col.values)
           max_val == SeriesMax(col.values)
       IN \E s \in np_random_normal(mean, std, col.dtype) :
            LET clipped == np_clip(s, min_val, max_val)
            IN \E v \in (IF is_integer_dtype(col)
                         THEN astype_int(np_round(clipped))
                         ELSE {clipped}) :
                  cell' = Some([sample |-> s, min_val |-> min_val, max_val |-> max_val,
                                clipped |-> clipped, value |-> v])
    /\ op' = "np.clip"
    /\ UNCHANGED <<nextOid, messages, llm_session, cache, now, trace, world, rng>>
    /\ UNCHANGED ingestVars

NextCell == GenerateCell

SpecCell == InitCell /\ [][NextCell]_vars

----------------------------------------------------------------------------
(* Streamlit: truthiness and the two cache decorators *)

\* `if x:` on an Optional[str]: None and the empty string are both false
Falsy(x) == x = None \/ x = Some("")

\* @st.cache_resource without ttl: the first return value is kept for the life
\* of the process.  `value` is what the function body returns when it runs.
st_cache_resource(entry, value, t) ==
    IF entry # None
    THEN [value |-> entry[1].value, entry |-> entry, computed |-> FALSE]
    ELSE [value |-> value, entry |-> Some([at |-> t, value |-> value]),
          computed |-> TRUE]

\* variant: an entry never expires
st_cache_data_Forever(entry, value, t, ttl) == st_cache_resource(entry, value, t)

\* variant: only a value that is not None is returned from the cache
st_cache_data_Truthy(entry, value, t, ttl) ==
    IF entry # None /\ entry[1].value # None /\ t - entry[1].at < ttl
    THEN [value |-> entry[1].value, entry |-> entry, computed |-> FALSE]
    ELSE [value |-> value, entry |-> Some([at |-> t, value |-> value]),
          computed |-> TRUE]

\* @st.cache_data(ttl=ttl): an entry younger than ttl seconds is returned, an
\* older one is replaced by what the function body returns now
st_cache_data(entry, value, t, ttl) ==
    IF entry # None /\ t - entry[1].at < ttl
    THEN [value |-> entry[1].value, entry |-> entry, computed |-> FALSE]
    ELSE [value |-> value, entry |-> Some([at |-> t, value |-> value]),
          computed |-> TRUE]

----------------------------------------------------------------------------
(* predictions.py *)

\* str(e) of what load_model(MODEL_PATH) can raise; MemoryError() has no text
ModelFaults == {"missing", ""}

\* str(e) of what predict_model raises on a loaded model
PredictFaults == {"predict failed"}

\* the body of load_ml_model: (model, None), or (None, str(e))
load_ml_model(model_fault) ==
    IF model_fault = None
    THEN [model |-> Some("model"), error |-> None]
    ELSE [model |-> None, error |-> model_fault]

\* pycaret's predict_model(model, data=df): a new table, the columns of df
\* followed by prediction_label and, for a model with scores, prediction_score;
\* or an exception.  Without a model it can only raise.
predict_model(model, df, oid) ==
    IF model = None
    THEN {[raised |-> Some("NoneType"), ret |-> None]}
    ELSE {[raised |-> Some(e), ret |-> None] : e \in PredictFaults}
           \cup
         {[raised |-> None,
           ret |-> Some([oid |-> oid,
                         columns |-> df.columns
                            \o <<[name |-> "prediction_label", dtype |-> "object",
                                  values |-> vs]>>
                            \o score])] :
             vs \in [1..NRows(df) -> Labels],
             score \in {<<>>, <<[name |-> "prediction_score", dtype |-> "float64",
                                 values |-> [i \in 1..NRows(df) |-> F(1)]]>>}}

\* variant: the copy keeps every column name
rename_Kept(df, old, new, oid) == [oid |-> oid, columns |-> df.columns]

\* DataFrame.rename(columns={old: new}): a new table, the column names mapped
rename(df, old, new, oid) ==
    [oid |-> oid,
     columns |-> [i \in 1..Len(df.columns) |->
                     IF df.columns[i].name = old
                     THEN [df.columns[i] EXCEPT !.name = new]
                     ELSE df.columns[i]]]

\* every outcome of run_predictions: what predict_model raised, or the renamed
\* table; output is the table predict_model returned
run_predictions(model, df, oid) ==
    {IF p.raised # None
     THEN [raised |-> p.raised, ret |-> None, output |-> None]
     ELSE [raised |-> None,
           ret |-> Some(rename(p.ret[1], "prediction_label", "Gravedad", oid + 1)),
           output |-> p.ret] :
        p \in predict_model(model, df, oid)}

\* every outcome of run_prediction_pipeline, given what load_ml_model returned
run_prediction_pipeline(df, loaded, oid) ==
    IF ~Falsy(loaded.error)
    THEN {[value |-> [success |-> FALSE, predictions |-> None, error |-> loaded.error],
           raised |-> None, predicts |-> 0, output |-> None, messages |-> <<>>]}
    ELSE {[value |-> IF r.raised # None
                     THEN [success |-> FALSE, predictions |-> None, error |-> r.raised]
                     ELSE [success |-> TRUE, predictions |-> r.ret, error |-> None],
           raised |-> None, predicts |-> 1, output |-> r.output,
           messages |-> <<Msg("success", "Modelo carregado com sucesso!")>>] :
             r \in run_predictions(loaded.model, df, oid)}

----------------------------------------------------------------------------
(* The specification of the prediction pipeline *)

\* the datasets of a session: validated tables, Gravedad stripped on ingest
SessionDatasets ==
    {[oid |-> 1, columns |-> <<c>>] :
        c \in UNION {RefColumns("Magnitud", n) : n \in 0..MaxRows}}

InitPredict ==
    /\ base_df = None
    /\ n_samples = None
    /\ ret = None
    /\ raised = "none"
    /\ op = "init"
    /\ nextOid = 2
    /\ session \in {[NoSession EXCEPT !.df = Some(t)] : t \in SessionDatasets}
    /\ uploaded_file = None
    /\ read_df = None
    /\ messages = <<>>
    /\ llm_session = NoLlmSession
    /\ cache = NoCache
    /\ now = 0
    /\ trace = NoTrace
    /\ world \in {[NoWorld EXCEPT !.model_fault = f] :
                     f \in {None} \cup {Some(e) : e \in ModelFaults}}
    /\ cell = None
    /\ rng = None

\* outside the process: the model file is removed, damaged or put back
ModelFile ==
    /\ \E f \in {None} \cup {Some(e) : e \in ModelFaults} :
          world' = [world EXCEPT !.model_fault = f]
    /\ world' # world
    /\ op' = "model file"
    /\ UNCHANGED <<nextOid, messages, llm_session, cache, now, trace, cell, rng>>
    /\ UNCHANGED ingestVars

\* one interaction that runs the pipeline on the session's dataset.  The tables
\* of the run take the place of those of the run before.
RunPredictionPipeline ==
    /\ LET c == st_cache_resource(cache.load_ml_model,
                                  load_ml_model(world.model_fault), now)
       IN /\ cache' = [cache EXCEPT !.load_ml_model = c.entry]
          /\ \E out \in run_prediction_pipeline(session.df[1], c.value, nextOid) :
                /\ trace' = [NoTrace EXCEPT !.loads = IF c.computed THEN 1 ELSE 0,
                                            !.predicts = out.predicts,
                                            !.value = out.value,
                                            !.output = out.output]
                /\ ret' = out.value.predictions
                /\ raised' = IF out.raised = None THEN "none" ELSE "Exception"
                /\ messages' = out.messages
    /\ op' = "run_prediction_pipeline"
    /\ UNCHANGED <<base_df, n_samples, session, uploaded_file, read_df>>
    /\ UNCHANGED <<nextOid, llm_session, now, world, cell, rng>>

\* one call of run_predictions on a loaded model
RunPredictions ==
    /\ world.model_fault = None
    /\ \E r \in run_predictions(load_ml_model(world.model_fault).model,
                                session.df[1], nextOid) :
          /\ trace' = [NoTrace EXCEPT !.predicts = 1, !.value = r.ret,
                                      !.output = r.output]
          /\ ret' = r.ret
          /\ raised' = IF r.raised = None THEN "none" ELSE "Exception"
    /\ op' = "run_predictions"
    /\ UNCHANGED <<base_df, n_samples, session, uploaded_file, read_df>>
    /\ UNCHANGED <<nextOid, messages, llm_session, cache, now, world, cell, rng>>

NextPredict ==
    \/ ModelFile
    \/ RunPredictionPipeline
    \/ RunPredictions

SpecPredict == InitPredict /\ [][NextPredict]_vars

----------------------------------------------------------------------------
(* llm_service.py *)

\* str(e) of what chat.completions.create can raise
ApiFailures == {"auth", "quota"}

\* what one chat.completions.create request does: it raises, or it replies
\* and choices[0].message.content is None or a text
ApiReplies ==
    {[raised |-> Some(e), content |-> None] : e \in ApiFailures}
      \cup {[raised |-> None, content |-> c] : c \in {None, Some("texto")}}

\* __init__ and _initialize_client: the client is built only for a key that
\* is not empty, and what OpenAI(api_key=...) raises is kept as a message
LLMService(api_key, client_fault) ==
    IF Falsy(api_key)
    THEN [client |-> FALSE, error_message |-> None]
    ELSE IF client_fault = None
    THEN [client |-> TRUE, error_message |-> None]
    ELSE [client |-> FALSE,
          error_message |-> Some("Erro ao inicializar servico de IA: "
                                    \o client_fault[1])]

create_llm_service(api_key, client_fault) == LLMService(api_key, client_fault)

is_available(self) == self.client

get_error_message(self) == self.error_message

\* variant: a request that raised is issued a second time before giving up
call_openai_api_Retry(self, error_message, reply) ==
    IF reply.raised = None
    THEN [ret |-> reply.content, raised |-> None, self |-> self, requests |-> 1]
    ELSE [ret |-> None, raised |-> None,
          self |-> [self EXCEPT !.error_message =
                                    Some(error_message \o ": " \o reply.raised[1])],
          requests |-> 2]

\* _call_openai_api: one request; what it raises becomes _error_message and
\* the return value is None
call_openai_api(self, error_message, reply) ==
    IF reply.raised = None
    THEN [ret |-> reply.content, raised |-> None, self |-> self, requests |-> 1]
    ELSE [ret |-> None, raised |-> None,
          self |-> [self EXCEPT !.error_message =
                                    Some(error_message \o ": " \o reply.raised[1])],
          requests |-> 1]

\* variant: a service without a client sends the request all the same
generate_prediction_insights_Unchecked(self, df, reply) ==
    call_openai_api(self, "Erro ao gerar insights", reply)

generate_prediction_insights(self, df, reply) ==
    IF ~is_available(self)
    THEN [ret |-> None, raised |-> None, self |-> self, requests |-> 0]
    ELSE call_openai_api(self, "Erro ao gerar insights", reply)

generate_risk_assessment(self, df, reply) ==
    IF ~is_available(self)
    THEN [ret |-> None, raised |-> None, self |-> self, requests |-> 0]
    ELSE call_openai_api(self, "Erro ao gerar avaliacao de risco", reply)

\* _prepare_quality_summary puts df.duplicated().sum(), a numpy.int64, into the
\* summary, and json.dumps in create_quality_prompt raises TypeError on it:
\* with a client the call leaves analyze_data_quality before any request
analyze_data_quality(self, df, reply) ==
    IF ~is_available(self)
    THEN [ret |-> None, raised |-> None, self |-> self, requests |-> 0]
    ELSE [ret |-> None,
          raised |-> Some("Object of type int64 is not JSON serializable"),
          self |-> self, requests |-> 0]

\* the operation behind each feature of the panel
operation(feature, self, df, reply) ==
    CASE feature = "insights" -> generate_prediction_insights(self, df, reply)
      [] feature = "risk" -> generate_risk_assessment(self, df, reply)
      [] OTHER -> analyze_data_quality(self, df, reply)

----------------------------------------------------------------------------
(* llm_insights.py *)

LLM_CACHE_TTL == 1800

\* the constants module names these texts; each stands for itself here
AI_UNAVAILABLE_WARNING == "AI_UNAVAILABLE_WARNING"
AI_SERVICE_ERROR(error_msg) ==
    "AI_SERVICE_ERROR: " \o (IF error_msg = None THEN "None" ELSE error_msg[1])
AI_GENERIC_ERROR(e) == "AI_GENERIC_ERROR: " \o e
UNKNOWN_ERROR(feature) ==
    CASE feature = "insights" -> "AI_INSIGHTS_UNKNOWN_ERROR"
      [] feature = "risk" -> "AI_RISK_UNKNOWN_ERROR"
      [] OTHER -> "AI_QUALITY_UNKNOWN_ERROR"

\* the session key that holds the result of a feature
state_key(feature) ==
    CASE feature = "insights" -> "llm_insights"
      [] feature = "risk" -> "llm_risk_assessment"
      [] OTHER -> "llm_quality_analysis"

\* md5 of df.to_string(): tables of equal content have equal hashes whatever
\* their identity; distinct contents are taken to have distinct hashes
generate_data_hash(df) == df.columns

\* the body of _cached_llm_insights, _cached_risk_assessment and
\* _cached_quality_analysis: the table is read from st.session_state["df"] and
\* the request goes through a service object built here; sent is the table
\* whose summary went out in the prompt
cached_body(feature, session_df, api_key, client_fault, reply) ==
    IF session_df = None
    THEN [ret |-> None, raised |-> None, self |-> None, requests |-> 0,
          sent |-> None]
    ELSE LET predictions == session_df[1]
             llm_service == LLMService(api_key, client_fault)
         IN IF ~is_available(llm_service)
            THEN [ret |-> None, raised |-> None, self |-> Some(llm_service),
                  requests |-> 0, sent |-> None]
            ELSE LET r == operation(feature, llm_service, predictions, reply)
                 IN [ret |-> r.ret, raised |-> r.raised, self |-> Some(r.self),
                     requests |-> r.requests,
                     sent |-> IF r.requests > 0 THEN Some(predictions) ELSE None]

\* the entry of one cached function under one key
cache_entry(c, feature, key) ==
    LET found == {e \in c : e.fn = feature /\ e.key = key}
    IN IF found = {} THEN None
       ELSE LET e == CHOOSE x \in found : TRUE
            IN Some([at |-> e.at, value |-> e.value])

cache_store(c, feature, key, entry) ==
    {e \in c : ~(e.fn = feature /\ e.key = key)}
      \cup {[fn |-> feature, key |-> key, at |-> entry[1].at,
             value |-> entry[1].value]}

\* variant: one error slot for the whole panel
set_error_All(ls, feature, text) ==
    [ls EXCEPT !.llm_errors = [f \in Features |-> Some(text)]]

\* st.session_state.llm_errors[feature] = text
set_error(ls, feature, text) == [ls EXCEPT !.llm_errors[feature] = Some(text)]

\* lines 134-137: error_msg or AI_*_UNKNOWN_ERROR, error_msg read from the
\* service object display_prediction_insights built, not from the one the
\* cached function built and sent the request through
request_error(llm_service, inner, feature) ==
    LET error_msg == get_error_message(llm_service)
    IN IF Falsy(error_msg) THEN UNKNOWN_ERROR(feature) ELSE error_msg[1]

\* one call of a cached function of the panel under @st.cache_data(ttl=1800):
\* the stored entry if it is young enough, else the body.  An exception leaves
\* the function without an entry being stored.
cached_call(c, t, feature, session_df, api_key, client_fault, data_hash, reply) ==
    LET key == <<data_hash, api_key>>
        body == cached_body(feature, session_df, api_key, client_fault, reply)
        entry == cache_entry(c, feature, key)
        got == st_cache_data(entry, body.ret, t, LLM_CACHE_TTL)
        ran == got.computed
        exc == IF ran THEN body.raised ELSE None
    IN [value |-> IF exc # None THEN None ELSE got.value,
        raised |-> exc,
        cache |-> IF ran /\ exc = None
                  THEN cache_store(c, feature, key, got.entry) ELSE c,
        ran |-> ran,
        requests |-> IF ran THEN body.requests ELSE 0,
        service |-> IF ran THEN body.self ELSE None,
        sent |-> IF ran THEN body.sent ELSE None,
        reply |-> IF ran /\ body.requests > 0 THEN Some(reply) ELSE None,
        key |-> Some(key),
        replaced |-> ran /\ entry # None]

\* lines 126-141 (and their twins): the button of one feature was pressed
\* (the outcome of the cached call, and the session state the block leaves)
feature_block(ls, c, t, feature, session_df, api_key, client_fault, data_hash, llm_service, reply) ==
    LET call == cached_call(c, t, feature, session_df, api_key, client_fault,
                            data_hash, reply)
    IN [llm_session |->
            IF call.raised # None
            THEN set_error(ls, feature, AI_GENERIC_ERROR(call.raised[1]))
            ELSE IF ~Falsy(call.value)
            THEN [ls EXCEPT ![state_key(feature)] = call.value,
                            !.llm_errors[feature] = None]
            ELSE set_error(ls, feature,
                           request_error(llm_service, call.service, feature))]
          @@ call

\* what the panel shows for one feature: the result, else the error
feature_display(ls, feature) ==
    IF ~Falsy(ls[state_key(feature)])
    THEN <<Msg("markdown", <<feature, ls[state_key(feature)][1]>>)>>
    ELSE IF ls.llm_errors[feature] # None
    THEN <<Msg("error", <<feature, ls.llm_errors[feature][1]>>)>>
    ELSE <<>>

panel_display(ls) ==
    feature_display(ls, "insights") \o feature_display(ls, "risk")
        \o feature_display(ls, "quality")

\* the feature buttons are drawn only past the two early returns
buttons_shown(w) ==
    /\ ~Falsy(w.api_key)
    /\ is_available(create_llm_service(w.api_key, w.client_fault))

\* the clear button is drawn only when a result is stored
clear_shown(ls) ==
    \/ ~Falsy(ls.llm_insights)
    \/ ~Falsy(ls.llm_risk_assessment)
    \/ ~Falsy(ls.llm_quality_analysis)

\* every outcome of one run of display_prediction_insights(predictions) in which
\* `pressed` is the button that reads True ("none": no button).  The clear
\* button resets the four keys and st.rerun() runs the panel once more.
display_prediction_insights(ls, c, t, w, session_df, predictions, pressed) ==
    LET api_key == w.api_key
        llm_service == create_llm_service(api_key, w.client_fault)
        quiet == [llm_session |-> ls, cache |-> c, requests |-> 0, service |-> None,
                  sent |-> None,
                  value |-> None, raised |-> None, reply |-> None, messages |-> <<>>]
    IN IF Falsy(api_key)
       THEN {[quiet EXCEPT !.messages = <<Msg("warning", AI_UNAVAILABLE_WARNING)>>] }
       ELSE IF ~is_available(llm_service)
       THEN {[quiet EXCEPT !.messages =
                 <<Msg("error", AI_SERVICE_ERROR(get_error_message(llm_service)))>>]}
       ELSE IF pressed \in Features
       THEN {LET b == feature_block(ls, c, t, pressed, session_df, api_key,
                                    w.client_fault, generate_data_hash(predictions),
                                    llm_service, reply)
             IN b @@ [messages |-> panel_display(b.llm_session)] :
                reply \in ApiReplies}
       ELSE IF pressed = "clear" /\ clear_shown(ls)
       THEN {[quiet EXCEPT !.llm_session = NoLlmSession,
                           !.messages = panel_display(NoLlmSession)]}
       ELSE {[quiet EXCEPT !.messages = panel_display(ls)]}

----------------------------------------------------------------------------
(* The specification of the AI panel *)

MaxTicks == 2

\* the clock moves in steps of the TTL of an LLM response
Tick == 1 * LLM_CACHE_TTL
MaxTime == MaxTicks * Tick

\* the dataset a session can hold when the panel runs, and the predictions
\* made on one of them
PanelDatasets == {t \in SessionDatasets : NRows(t) = 1}
PanelPredictions ==
    {r.ret[1] : r \in {x \in run_predictions(Some("model"),
                                             CHOOSE t \in PanelDatasets : TRUE, 2) :
                          x.raised = None /\ Len(x.ret[1].columns) = 2}}

\* the secret and the OpenAI constructor: no key, an empty key, a key, and a
\* key with a constructor that raises
PanelWorlds ==
    {[NoWorld EXCEPT !.api_key = k] : k \in {None, Some(""), Some("sk-1")}}
      \cup {[NoWorld EXCEPT !.api_key = Some("sk-1"), !.client_fault = Some("init")]}

InitLLM ==
    /\ base_df = None
    /\ n_samples = None
    /\ ret \in {Some(p) : p \in PanelPredictions}
    /\ raised = "none"
    /\ op = "init"
    /\ nextOid = 4
    /\ session \in {NoSession}
                     \cup {[NoSession EXCEPT !.df = Some(t)] : t \in PanelDatasets}
    /\ uploaded_file = None
    /\ read_df = None
    /\ messages = <<>>
    /\ llm_session = NoLlmSession
    /\ cache = NoCache
    /\ now = 0
    /\ trace = NoTrace
    /\ world \in PanelWorlds
    /\ cell = None
    /\ rng = None

\* time passes between two interactions
ClockLLM ==
    /\ now < MaxTime
    /\ now' = now + Tick
    /\ op' = "clock"
    /\ UNCHANGED <<nextOid, messages, llm_session, cache, trace, world, cell, rng>>
    /\ UNCHANGED ingestVars

\* one run of the panel: a feature button, the clear button or no button
DisplayPredictionInsights ==
    /\ \E pressed \in Features \cup {"clear", "none"} :
         /\ pressed \in Features => buttons_shown(world)
         /\ pressed = "clear" => buttons_shown(world) /\ clear_shown(llm_session)
         /\ \E out \in display_prediction_insights(llm_session, cache.llm, now, world,
                                                   session.df, ret[1], pressed) :
              /\ llm_session' = out.llm_session
              /\ cache' = [cache EXCEPT !.llm = out.cache]
              /\ messages' = out.messages
              /\ raised' = "none"
              /\ trace' = [NoTrace EXCEPT !.requests = out.requests,
                                          !.value = out.value,
                                          !.service = out.service,
                                          !.output = out.sent,
                                          !.reply = out.reply]
              /\ op' = pressed
    /\ UNCHANGED <<base_df, n_samples, ret, session, uploaded_file, read_df>>
    /\ UNCHANGED <<nextOid, now, world, cell, rng>>

\* one call of an LLMService operation on a service built from the secret,
\* before the panel has run
ServiceOperation ==
    /\ op = "init"
    /\ \E feature \in Features, reply \in ApiReplies :
         LET self == create_llm_service(world.api_key, world.client_fault)
             r == operation(feature, self, ret[1], reply)
         IN /\ trace' = [NoTrace EXCEPT !.requests = r.requests, !.value = r.ret,
                                        !.service = Some(r.self),
                                        !.reply = IF r.requests > 0 THEN Some(reply)
                                                  ELSE None]
            /\ raised' = IF r.raised = None THEN "none" ELSE "TypeError"
            /\ op' = "LLMService." \o feature
    /\ UNCHANGED <<base_df, n_samples, ret, session, uploaded_file, read_df>>
    /\ UNCHANGED <<nextOid, messages, llm_session, cache, now, world, cell, rng>>

NextLLM ==
    \/ ClockLLM
    \/ DisplayPredictionInsights
    \/ ServiceOperation

SpecLLM == InitLLM /\ [][NextLLM]_vars

----------------------------------------------------------------------------
(* The specification of the cached functions: load_base_dataset             *)
(* (data_loader.py), load_ml_model (predictions.py) and the three cached    *)
(* functions of llm_insights.py, called as time passes                      *)

CACHE_TTL_DATA == 3600

\* the file at BASE_DATASET_PATH: a table with its label column and valid
\* numeric columns
BaseTables ==
    {t \in CsvTablesOf(MaxCsvRows) :
        /\ Len(t.columns) = 5
        /\ t.columns[1].name = "Gravedad"
        /\ validate_data_types(clean_dataset(t, 0)).is_valid
        /\ validate_data_ranges(clean_dataset(t, 0)).errors = <<>>}

BaseFiles == {[table |-> CHOOSE t \in BaseTables : TRUE, fault |-> "none"]}

InitCache ==
    /\ base_df = None
    /\ n_samples = None
    /\ ret = Some(CHOOSE p \in PanelPredictions : TRUE)
    /\ raised = "none"
    /\ op = "init"
    /\ nextOid = 4
    /\ session = [NoSession EXCEPT !.df = Some(CHOOSE t \in PanelDatasets : TRUE)]
    /\ uploaded_file = None
    /\ read_df = None
    /\ messages = <<>>
    /\ llm_session = NoLlmSession
    /\ cache = NoCache
    /\ now = 0
    /\ trace = NoTrace
    /\ world \in {[api_key |-> Some("sk-1"), client_fault |-> None,
                   model_fault |-> None, base_file |-> Some(f)] : f \in BaseFiles}
    /\ cell = None
    /\ rng = None

\* time passes
ClockTick ==
    /\ now < MaxTime
    /\ now' = now + Tick
    /\ op' = "clock"
    /\ UNCHANGED <<nextOid, messages, llm_session, cache, trace, world, cell, rng>>
    /\ UNCHANGED ingestVars

\* one call of load_base_dataset() under @st.cache_data(ttl=CACHE_TTL_DATA);
\* what read_csv raises is not stored
CachedLoadBaseDataset ==
    /\ LET body == load_base_dataset(world.base_file[1], nextOid)
           got == st_cache_data(cache.load_base_dataset, body.ret, now, CACHE_TTL_DATA)
           ran == got.computed
           exc == ran /\ body.raised # "none"
       IN /\ cache' = [cache EXCEPT !.load_base_dataset =
                                        IF exc THEN None ELSE got.entry]
          /\ trace' = [NoTrace EXCEPT !.reads = IF ran THEN 1 ELSE 0,
                                      !.value = IF exc THEN None ELSE got.value,
                                      !.key = Some(<<>>),
                                      !.replaced =
                                          ran /\ cache.load_base_dataset # None]
          /\ ret' = IF exc THEN ret ELSE got.value
          /\ base_df' = IF exc THEN base_df ELSE got.value
          /\ raised' = IF exc THEN body.raised ELSE "none"
    /\ op' = "cached load_base_dataset"
    /\ UNCHANGED <<n_samples, session, uploaded_file, read_df>>
    /\ UNCHANGED <<nextOid, messages, llm_session, now, world, cell, rng>>

\* one call of load_ml_model() under @st.cache_resource
CachedLoadMlModel ==
    /\ LET got == st_cache_resource(cache.load_ml_model,
                                    load_ml_model(world.model_fault), now)
       IN /\ cache' = [cache EXCEPT !.load_ml_model = got.entry]
          /\ trace' = [NoTrace EXCEPT !.loads = IF got.computed THEN 1 ELSE 0,
                                      !.value = Some(got.value),
                                      !.key = Some(<<>>)]
    /\ op' = "cached load_ml_model"
    /\ UNCHANGED <<nextOid, messages, llm_session, now, world, cell, rng>>
    /\ UNCHANGED ingestVars

\* one call of _cached_llm_insights, _cached_risk_assessment or
\* _cached_quality_analysis with the hash of the predictions and the key, the
\* API answering with a text
CachedLlm ==
    /\ \E feature \in Features, reply \in {r \in ApiReplies : r.content # None} :
         LET call == cached_call(cache.llm, now, feature, session.df, world.api_key,
                                 world.client_fault, generate_data_hash(ret[1]), reply)
         IN /\ cache' = [cache EXCEPT !.llm = call.cache]
            /\ trace' = [NoTrace EXCEPT !.requests = call.requests,
                                        !.value = call.value,
                                        !.key = call.key,
                                        !.replaced = call.replaced]
            /\ raised' = IF call.raised = None THEN "none" ELSE "TypeError"
            /\ op' = "cached " \o feature
    /\ UNCHANGED <<base_df, n_samples, ret, session, uploaded_file, read_df>>
    /\ UNCHANGED <<nextOid, messages, llm_session, now, world, cell, rng>>

NextCache ==
    \/ ClockTick
    \/ CachedLoadBaseDataset
    \/ CachedLoadMlModel
    \/ CachedLlm

SpecCache == InitCache /\ [][NextCache]_vars

----------------------------------------------------------------------------
(* The specification of a session of app.py: the script runs once per       *)
(* interaction, and st.file_uploader keeps its file from one run to the next *)

MaxRuns == 3

\* what carregar_dataset_base returned: a numeric table of at least one row
AppDatasets == {t \in SessionDatasets : NRows(t) >= 1}

\* the files a user uploads: a valid one, one without the required columns,
\* and one read_csv raises on
AppFiles ==
    LET valid == CHOOSE t \in BaseTables : TRUE
        partial == [oid |-> 0, columns |-> SubSeq(valid.columns, 1, 2)]
    IN {[table |-> valid, fault |-> "none"], [table |-> partial, fault |-> "none"],
        [table |-> partial, fault |-> "read_csv"]}

InitApp ==
    /\ base_df \in {Some(t) : t \in AppDatasets}
    /\ n_samples = None
    /\ ret = None
    /\ raised = "none"
    /\ op = "init"
    /\ nextOid = 2
    /\ session = NoSession
    /\ uploaded_file = None
    /\ read_df = None
    /\ messages = <<>>
    /\ PanelIdle

\* one run of the script: uploader holds `file`, the button reads `pressed`.
\* ret keeps the last table gerar_dataset_randomico returned.
AppRun(file, pressed, name) ==
    /\ nextOid + 3 <= 2 + 3 * MaxRuns
    /\ raised = "none"
    /\ \E out \in app_script(session, file, pressed, base_df[1], nextOid) :
         /\ session' = out.session
         /\ raised' = out.raised
         /\ messages' = out.messages
         /\ ret' = IF pressed /\ out.raised = "none" THEN out.session.df ELSE ret
    /\ uploaded_file' = file
    /\ op' = name
    /\ nextOid' = nextOid + 3
    /\ UNCHANGED <<base_df, n_samples, read_df>>
    /\ UNCHANGED panelVars

\* the user puts a file into the uploader
AppUpload == \E file \in AppFiles : AppRun(Some(file), FALSE, "upload")

\* the user takes the file out of the uploader
AppRemove == uploaded_file # None /\ AppRun(None, FALSE, "remove")

\* the user presses the random-dataset button
AppRandom == AppRun(uploaded_file, TRUE, "random")

\* any other interaction, such as a change of the selected analysis
AppOther == AppRun(uploaded_file, FALSE, "rerun")

NextApp ==
    \/ AppUpload
    \/ AppRemove
    \/ AppRandom
    \/ AppOther

SpecApp == InitApp /\ [][NextApp]_vars

----------------------------------------------------------------------------
(* Properties of the generator *)

Called == op \in {"generate_random_dataset", "gerar_dataset_randomico"}
Returned == Called /\ ret # None

Ref == base_df[1]
Out == ret[1]

\* the columns the result shares with the reference, position by position
SharedCols == 1..(IF Len(Out.columns) < Len(Ref.columns)
                  THEN Len(Out.columns) ELSE Len(Ref.columns))

WithinRange(v, vals) == Le(SeriesMin(vals), v) /\ Le(v, SeriesMax(vals))

\* C1: with a reference of at least one row, every value generated for a
\* numeric column lies between the minimum and the maximum of that column in
\* the reference.
C1_NumericWithinRange ==
    (Returned /\ NRows(Ref) >= 1) =>
        \A i \in SharedCols :
            is_numeric_dtype(Ref.columns[i]) =>
                \A r \in 1..Len(Out.columns[i].values) :
                    WithinRange(Out.columns[i].values[r], Ref.columns[i].values)

\* C2: every value generated for a column of integers is a whole number within
\* [min, max] of the reference column.
C2_IntegerWholeWithinRange ==
    Returned =>
        \A i \in SharedCols :
            is_integer_dtype(Ref.columns[i]) =>
                \A r \in 1..Len(Out.columns[i].values) :
                    /\ IsWhole(Out.columns[i].values[r])
                    /\ WithinRange(Out.columns[i].values[r], Ref.columns[i].values)

\* C3: every value generated for a categorical column is a label observed in
\* the reference column (so a column with one observed label repeats it).
C3_CategoricalObserved ==
    Returned =>
        \A i \in SharedCols :
            ~is_numeric_dtype(Ref.columns[i]) =>
                \A r \in 1..Len(Out.columns[i].values) :
                    \E q \in 1..Len(Ref.columns[i].values) :
                        Out.columns[i].values[r] = Ref.columns[i].values[q]

\* a generated categorical column of two rows whose reference column holds the
\* same label in both of its rows
C3_Witness ==
    /\ Returned
    /\ \E i \in SharedCols :
          /\ ~is_numeric_dtype(Ref.columns[i])
          /\ Len(Ref.columns[i].values) = 2
          /\ Cardinality(value_counts(Ref.columns[i].values)) = 1
          /\ Len(Out.columns[i].values) = 2

ExpectedRows == IF n_samples = None THEN NRows(Ref) ELSE n_samples[1]

\* C4: the returned table has row_count rows when row_count is given and
\* len(reference) rows when it is omitted, in every column, and the columns
\* of the reference, in the same order.
C4_ShapeOfResult ==
    Returned =>
        /\ NRows(Out) = ExpectedRows
        /\ \A i \in 1..Len(Out.columns) : Len(Out.columns[i].values) = ExpectedRows
        /\ ColumnNames(Out) = ColumnNames(Ref)

\* a two-column result with fewer rows than its two-row reference
C4_Witness ==
    /\ Returned
    /\ n_samples = Some(1)
    /\ NRows(Ref) = 2
    /\ Len(Out.columns) = 2
    /\ NRows(Out) = 1

\* C5: a numeric reference column of zero or undefined variance (every row
\* holds the same value k, a single row included) generates only the value k.
C5_DegenerateConstant ==
    Returned =>
        \A i \in SharedCols :
            (/\ is_numeric_dtype(Ref.columns[i])
             /\ Len(Ref.columns[i].values) >= 1
             /\ Cardinality(value_counts(Ref.columns[i].values)) = 1) =>
                \A r \in 1..Len(Out.columns[i].values) :
                    Out.columns[i].values[r] = Ref.columns[i].values[1]

\* C6: on a reference of zero rows the call fails with an error and returns
\* no table.
C6_EmptyReferenceFails ==
    (Called /\ NRows(Ref) = 0) => (raised # "none" /\ ret = None)

\* C7: a call leaves the reference table and the session state as they were,
\* and what it returns is a table object other than the reference.
C7_NoSideEffect ==
    [][Called' =>
          /\ base_df' = base_df
          /\ session' = session
          /\ uploaded_file' = uploaded_file
          /\ (ret' # None => ret'[1].oid # base_df[1].oid)]_vars

\* a call on a two-row reference that returned a table of two rows
C7_Witness ==
    /\ Returned
    /\ op = "generate_random_dataset"
    /\ NRows(Ref) = 2
    /\ NRows(Out) = 2

----------------------------------------------------------------------------
(* Properties of the ingest path *)

Ingested ==
    \/ op = "handle_file_upload" /\ ret # None
    \/ op = "load_base_dataset" /\ raised = "none"

\* C8: a table that came in through handle_file_upload or load_base_dataset
\* has no Gravedad column; its other columns, with all their rows, are those
\* of the table read, in the same order; a table read without Gravedad is
\* returned as the same object.
C8_GravedadStripped ==
    Ingested =>
        /\ \A i \in 1..Len(ret[1].columns) : ret[1].columns[i].name # "Gravedad"
        /\ ret[1].columns = SelectSeq(read_df[1].columns, IsNotGravedad)
        /\ (\A i \in 1..Len(read_df[1].columns) :
                read_df[1].columns[i].name # "Gravedad") => ret[1] = read_df[1]
        /\ op = "load_base_dataset" => base_df = ret

\* an accepted upload of one row whose file had a Gravedad column
C8_Witness ==
    /\ op = "handle_file_upload"
    /\ ret # None
    /\ HasColumn(read_df[1], "Gravedad")
    /\ Len(read_df[1].columns) = Len(ret[1].columns) + 1
    /\ NRows(ret[1]) = 1

Required == {EXPECTED_COLUMNS[i] : i \in 1..Len(EXPECTED_COLUMNS)}

MissingRequired(t) ==
    \E c \in Required : \A i \in 1..Len(t.columns) : t.columns[i].name # c

NonNumericRequired(t) ==
    \E c \in Required : \E i \in 1..Len(t.columns) :
        t.columns[i].name = c /\ t.columns[i].dtype \notin {"int64", "float64"}

Outside(col, lo, hi) ==
    \E r \in 1..Len(col.values) : col.values[r].v < 2 * lo \/ col.values[r].v > 2 * hi

OutOfRange(t) ==
    \E i \in 1..Len(t.columns) :
        \/ t.columns[i].name = "Magnitud" /\ Outside(t.columns[i], 0, 10)
        \/ t.columns[i].name = "Latitud" /\ Outside(t.columns[i], -90, 90)
        \/ t.columns[i].name = "Longitud" /\ Outside(t.columns[i], -180, 180)
        \/ t.columns[i].name = "Profundidad"
             /\ \E r \in 1..Len(t.columns[i].values) : t.columns[i].values[r].v < 0

Handled ==
    /\ op = "handle_file_upload"
    /\ uploaded_file # None

Upload == uploaded_file[1]

\* C9: an upload that pandas reads without raising is rejected (None) when a
\* required column is missing or not numeric; otherwise it is accepted, the
\* cleaned table is returned, and out-of-range values only add warnings.
C9_RejectOrAccept ==
    (Handled /\ Upload.fault = "none") =>
        IF MissingRequired(Upload.table) \/ NonNumericRequired(Upload.table)
        THEN ret = None
        ELSE /\ ret # None
             /\ ret[1].columns = SelectSeq(Upload.table.columns, IsNotGravedad)
             /\ OutOfRange(Upload.table) <=>
                    \E m \in 1..Len(messages) : messages[m].kind = "warning"
             /\ \A m \in 1..Len(messages) : messages[m].kind # "error"

\* an accepted upload with an out-of-range value and a warning
C9_Witness ==
    /\ Handled
    /\ Upload.fault = "none"
    /\ ret # None
    /\ OutOfRange(Upload.table)
    /\ \E m \in 1..Len(messages) : messages[m].kind = "warning"

\* C10: no exception raised while the upload is read, cleaned or validated
\* leaves handle_file_upload or the upload block of app.py: the upload yields
\* no dataset and the run goes on.
C10_UploadFailuresCaught ==
    /\ Handled =>
          /\ raised = "none"
          /\ Upload.fault # "none" => ret = None
    /\ (op = "app.py" /\ uploaded_file # None) =>
          /\ raised = "none"
          /\ Upload.fault \in {"read_csv", "clean_dataset", "validate_columns"} =>
                (session.df = None /\ ~session.upload_valido)

\* pandas raised in validate_data_ranges, after the columns and types passed,
\* and the except clause reported it
C10_Witness ==
    /\ Handled
    /\ Upload.fault = "validate_data_ranges"
    /\ ~MissingRequired(Upload.table)
    /\ ~NonNumericRequired(Upload.table)
    /\ ret = None
    /\ messages = <<Msg("error", "Erro ao carregar arquivo")>>

----------------------------------------------------------------------------
(* Properties of the clip *)

Clipped == op = "np.clip" /\ cell # None

\* C20: the clip of generate_random_dataset is a hard clamp on every sample: a
\* sample below the reference minimum becomes exactly the minimum, a sample
\* above the reference maximum becomes exactly the maximum, and a sample
\* within [min, max] passes unchanged; the clipped value is a function of the
\* one sample drawn, nothing is drawn again.
C20_HardClamp ==
    Clipped =>
        LET c == cell[1]
        IN /\ Lt(c.sample, c.min_val) => c.clipped = c.min_val
           /\ Gt(c.sample, c.max_val) => c.clipped = c.max_val
           /\ (Le(c.min_val, c.sample) /\ Le(c.sample, c.max_val))
                  => c.clipped = c.sample

\* a sample below the minimum has been clamped onto it
C20_Witness ==
    /\ Clipped
    /\ Lt(cell[1].sample, cell[1].min_val)
    /\ cell[1].clipped = cell[1].min_val

----------------------------------------------------------------------------
(* Properties of the prediction pipeline *)

PipelineRan == op = "run_prediction_pipeline"

\* what load_ml_model handed to the run: the entry of its cache
Loaded == cache.load_ml_model[1].value

SuccessShape(v) == v.success /\ v.predictions # None /\ v.error = None
FailureShape(v) == ~v.success /\ v.predictions = None /\ v.error # None

\* C15: run_prediction_pipeline returns (True, predictions, None) or
\* (False, None, error message) and nothing else; when the model failed to
\* load it returns the failure shape without calling predict, and when predict
\* raised the exception is returned as the failure shape.
C15_PipelineResultShape ==
    PipelineRan =>
        /\ SuccessShape(trace.value) \/ FailureShape(trace.value)
        /\ Loaded.model = None => FailureShape(trace.value) /\ trace.predicts = 0
        /\ (trace.predicts = 1 /\ trace.output = None) => FailureShape(trace.value)

\* load_ml_model has a failure stored
LoadFailureCached ==
    cache.load_ml_model # None /\ cache.load_ml_model[1].value.model = None

\* C16: after an interaction in which the model failed to load, a later
\* interaction that runs the pipeline calls load_model again, and the load
\* succeeds when the model file has become loadable.
C16_LoadAttemptedAgain ==
    [][(LoadFailureCached /\ op' = "run_prediction_pipeline")
          => /\ trace'.loads = 1
             /\ world.model_fault = None => cache'.load_ml_model[1].value.model # None]_vars

PredictionsReturned ==
    op \in {"run_predictions", "run_prediction_pipeline"} /\ ret # None

\* C19: the table run_predictions returns is the table predict_model returned
\* with prediction_label renamed to Gravedad: exactly one Gravedad column, no
\* prediction_label column, and every other column, with all its rows, as
\* predict_model returned it.
C19_LabelRenamed ==
    PredictionsReturned =>
        LET out == ret[1].columns
            model == trace.output[1].columns
        IN /\ Cardinality({i \in DOMAIN out : out[i].name = "Gravedad"}) = 1
           /\ \A i \in DOMAIN out : out[i].name # "prediction_label"
           /\ Len(out) = Len(model)
           /\ \A i \in DOMAIN model :
                 out[i] = IF model[i].name = "prediction_label"
                          THEN [model[i] EXCEPT !.name = "Gravedad"]
                          ELSE model[i]

\* run_predictions returned a table of two rows that carries a score column
C19_Witness ==
    /\ op = "run_predictions"
    /\ ret # None
    /\ NRows(ret[1]) = MaxRows
    /\ HasColumn(ret[1], "prediction_score")
    /\ HasColumn(ret[1], "Gravedad")

----------------------------------------------------------------------------
(* Properties of the AI panel *)

NoKey == Falsy(world.api_key)
PanelRan == op \in Features \cup {"clear", "none"}
ServiceCalled == op \in {"LLMService." \o f : f \in Features}
Requested == op \in Features

\* the feature the last operation was about
OpFeature == CHOOSE f \in Features : op \in {f, "LLMService." \o f}

\* the error_message argument each operation hands to _call_openai_api
ErrorPrefix(feature) ==
    CASE feature = "insights" -> "Erro ao gerar insights"
      [] feature = "risk" -> "Erro ao gerar avaliacao de risco"
      [] OTHER -> "Erro ao analisar qualidade dos dados"

\* the request of the last operation raised
RequestRaised == trace.reply # None /\ trace.reply[1].raised # None

\* the text that names the failure of the last request
Descriptive == ErrorPrefix(OpFeature) \o ": " \o trace.reply[1].raised[1]

C12_FailureNamed ==
    (Requested /\ RequestRaised) =>
        /\ raised = "none"
        /\ trace.service[1].error_message = Some(Descriptive)
        /\ llm_session.llm_errors[op] = Some(Descriptive)
        /\ Falsy(llm_session[state_key(op)])
              => \E i \in DOMAIN messages :
                    messages[i] = Msg("error", <<op, Descriptive>>)

\* the session with the entries of every feature but g as a new session has them
OthersReset(ls, g) ==
    [NoLlmSession EXCEPT ![state_key(g)] = ls[state_key(g)],
                         !.llm_errors[g] = ls.llm_errors[g]]

\* what a request for g stores and returns does not depend on what the
\* session holds for the other features
RequestIndependent ==
    buttons_shown(world) =>
        \A g \in Features, reply \in ApiReplies :
            LET llm_service == create_llm_service(world.api_key, world.client_fault)
                a == feature_block(llm_session, cache.llm, now, g, session.df,
                                   world.api_key, world.client_fault,
                                   generate_data_hash(ret[1]), llm_service, reply)
                b == feature_block(OthersReset(llm_session, g), cache.llm, now, g,
                                   session.df, world.api_key, world.client_fault,
                                   generate_data_hash(ret[1]), llm_service, reply)
            IN /\ a.llm_session[state_key(g)] = b.llm_session[state_key(g)]
               /\ a.llm_session.llm_errors[g] = b.llm_session.llm_errors[g]
               /\ a.value = b.value

\* C13: the three features are independent failure domains: a failed request
\* for one feature changes that feature's llm_errors entry and nothing else of
\* the session (the stored results and the errors of the other two stay as
\* they were), and the outcome of a later request for another feature is the
\* one it would have without that failure.
C13_IndependentFailureDomains ==
    /\ [][\A f \in Features :
            (op' = f /\ llm_session'.llm_errors[f] # None) =>
                /\ llm_session'[state_key(f)] = llm_session[state_key(f)]
                /\ \A g \in Features \ {f} :
                      /\ llm_session'[state_key(g)] = llm_session[state_key(g)]
                      /\ llm_session'.llm_errors[g] = llm_session.llm_errors[g]]_vars
    /\ []RequestIndependent

\* the request for insights failed, and a later request for the risk
\* assessment has just succeeded
C13_Witness ==
    /\ op = "risk"
    /\ trace.value # None
    /\ llm_session.llm_risk_assessment # None
    /\ llm_session.llm_errors["risk"] = None
    /\ llm_session.llm_errors["insights"] # None

\* C14: an LLMService operation issues at most one request per call; when the
\* request raises, the operation returns None, the service's error message is
\* the operation's prefix followed by the exception text, and the request was
\* issued once.
C14_OneRequestNoRetry ==
    (ServiceCalled \/ Requested) =>
        /\ trace.requests \in {0, 1}
        /\ RequestRaised =>
              /\ trace.requests = 1
              /\ trace.value = None
              /\ trace.service[1].error_message = Some(Descriptive)

\* an operation whose one request raised
C14_Witness ==
    /\ ServiceCalled
    /\ RequestRaised
    /\ trace.requests = 1
    /\ trace.value = None

----------------------------------------------------------------------------
(* Properties of the cached functions *)

\* the entry is younger than ttl seconds / has reached the age of ttl seconds
Young(e, ttl) == e # None /\ now - e[1].at < ttl
Expired(e, ttl) == e # None /\ now - e[1].at >= ttl

\* a step that calls load_base_dataset() follows ttl=CACHE_TTL_DATA
BaseDatasetTTL ==
    op' = "cached load_base_dataset" =>
        LET e == cache.load_base_dataset
        IN /\ Young(e, CACHE_TTL_DATA)
                => trace'.reads = 0 /\ trace'.value = e[1].value /\ cache' = cache
           /\ Expired(e, CACHE_TTL_DATA)
                => trace'.reads = 1 /\ trace'.replaced
                     /\ cache'.load_base_dataset[1].at = now

\* a step that calls a cached function of the panel follows ttl=1800
LlmResponseTTL ==
    \A f \in Features :
        op' = "cached " \o f =>
            LET e == cache_entry(cache.llm, f, trace'.key[1])
            IN /\ Young(e, LLM_CACHE_TTL)
                    => trace'.requests = 0 /\ trace'.value = e[1].value
                         /\ cache' = cache
               /\ Expired(e, LLM_CACHE_TTL)
                    => trace'.replaced /\ trace'.requests = 1

\* C17 as stated: every cached computation has a TTL, the trained-model load
\* included: a stored model as old as the longest TTL the program declares is
\* loaded again by the next access.
C17_EveryCacheExpires ==
    [][/\ BaseDatasetTTL
       /\ LlmResponseTTL
       /\ op' = "cached load_ml_model" =>
             LET e == cache.load_ml_model
             IN /\ Young(e, CACHE_TTL_DATA)
                     => trace'.loads = 0 /\ trace'.value = Some(e[1].value)
                /\ Expired(e, CACHE_TTL_DATA) => trace'.loads = 1]_vars

\* C17, amended: the base dataset load and each LLM response are memoized on
\* their inputs with a fixed TTL (3600 s and 1800 s): within the TTL a
\* repeated access with the same key returns the stored entry without
\* recomputing, and the first access after the TTL has expired recomputes.
\* The trained-model load is memoized without a TTL: once stored, its value
\* is returned by every later access, however old, and never computed again.
C17_TTLButModelForever ==
    [][/\ BaseDatasetTTL
       /\ LlmResponseTTL
       /\ op' = "cached load_ml_model" =>
             LET e == cache.load_ml_model
             IN e # None => /\ trace'.loads = 0
                            /\ trace'.value = Some(e[1].value)
                            /\ cache' = cache]_vars

\* the base dataset has just been read again in place of an expired entry,
\* while the model stored at time 0 is still the entry of load_ml_model
C17_Witness ==
    /\ op = "cached load_base_dataset"
    /\ trace.replaced
    /\ trace.reads = 1
    /\ now >= CACHE_TTL_DATA
    /\ cache.load_ml_model # None
    /\ cache.load_ml_model[1].at = 0

----------------------------------------------------------------------------
(* Properties of a session of app.py *)

\* the session's dataset is the table the generator returned last
Synthetic == ret # None /\ session.df = ret

\* C18: each press of the random-dataset button stores a newly generated
\* table as the session's dataset, and an interaction that is neither a press
\* of that button nor the end of the session, such as a change of the
\* selected analysis, leaves a stored synthetic dataset in place.
C18_SyntheticDatasetKept ==
    [][/\ (op' = "random" /\ raised' = "none")
            => /\ session'.df # None
               /\ session'.df = ret'
               /\ session'.df[1].oid >= nextOid
       /\ (Synthetic /\ op' = "rerun") => session'.df = session.df]_vars

----------------------------------------------------------------------------
(* Properties of validate_data_ranges *)

\* the ranges of the four columns, in the order of the checks; no upper
\* bound on Profundidad
Ranges ==
    <<[name |-> "Magnitud", lo |-> Some(0), hi |-> Some(10),
       text |-> "Magnitude deve estar entre 0 e 10"],
      [name |-> "Latitud", lo |-> Some(-90), hi |-> Some(90),
       text |-> "Latitude deve estar entre -90 e 90"],
      [name |-> "Longitud", lo |-> Some(-180), hi |-> Some(180),
       text |-> "Longitude deve estar entre -180 e 180"],
      [name |-> "Profundidad", lo |-> Some(0), hi |-> None,
       text |-> "Profundidade nao pode ser negativa"]>>

Validated == read_df[1]

\* some row of the column holds a value below lo or above hi
ValueOutside(t, r) ==
    \E i \in 1..Len(t.columns) :
        /\ t.columns[i].name = r.name
        /\ \E k \in 1..Len(t.columns[i].values) :
             LET x == t.columns[i].values[k]
             IN /\ ~x.nan
                /\ \/ x.v < 2 * r.lo[1]
                   \/ r.hi # None /\ x.v > 2 * r.hi[1]

IsOutside(r) == ValueOutside(Validated, r)

ExpectedErrors ==
    LET failing == SelectSeq(Ranges, IsOutside)
    IN [i \in 1..Len(failing) |-> failing[i].text]

\* C21: the error list of validate_data_ranges holds one message for each
\* present column with a value outside its range (bounds inclusive), in the
\* order Magnitud, Latitud, Longitud, Profundidad; an absent column adds no
\* message; is_valid is true exactly when the list is empty.
C21_RangeErrorsAccumulated ==
    op = "validate_data_ranges" =>
        /\ ret[1].errors = ExpectedErrors
        /\ ret[1].is_valid <=> ret[1].errors = <<>>

\* Magnitud is absent, Latitud and Profundidad hold a value outside their
\* ranges and Longitud does not: two messages, in the order of the columns
C21_Witness ==
    /\ op = "validate_data_ranges"
    /\ ~HasColumn(Validated, "Magnitud")
    /\ HasColumn(Validated, "Longitud")
    /\ ret[1].errors = <<"Latitude deve estar entre -90 e 90",
                         "Profundidade nao pode ser negativa">>
    /\ ~ret[1].is_valid

----------------------------------------------------------------------------
(* Properties of the session state of app.py *)

SessionConsistent ==
    /\ ~session.upload_valido => session.df = None
    /\ session.colunas_faltando # <<>> => ~session.upload_valido

\* a run in which the uploader holds a file and the button reads True
UploadAndPress == op' = "random" /\ uploaded_file' # None /\ raised' = "none"

\* C22: at the end of every run of app.py, after any sequence of uploads
\* (valid, invalid, unreadable), removals and random-dataset presses,
\* upload_valido = False implies df is None and a non-empty colunas_faltando
\* implies upload_valido = False; in a run with both an upload and a press
\* the dataset stored is the generated one.
C22_SessionStateConsistent ==
    /\ []SessionConsistent
    /\ [][UploadAndPress =>
            /\ session'.df # None
            /\ session'.df = ret'
            /\ session'.df[1].oid = nextOid + 2
            /\ session'.upload_valido
            /\ session'.colunas_faltando = <<>>]_vars

\* the button was pressed while the uploader held a file without the required
\* columns: the generated table is stored and the session reads valid
C22_Witness ==
    /\ op = "random"
    /\ uploaded_file # None
    /\ uploaded_file[1].fault = "none"
    /\ ~validar_dataset(uploaded_file[1].table).valido
    /\ session.df # None
    /\ session.df = ret
    /\ session.upload_valido

----------------------------------------------------------------------------
(* Properties of the two generators *)

BothCalled == op = "gerar_dataset_randomico" /\ rng # None

\* C23: on the same reference table, with the same row count (given or
\* omitted) and the same sequence of random draws, gerar_dataset_randomico
\* of app.py and generate_random_dataset of data_loader.py raise alike and
\* return tables of the same columns, dtypes and values.
C23_GeneratorsEquivalent ==
    BothCalled =>
        /\ trace.value = Some(raised)
        /\ (trace.output = None) <=> (ret = None)
        /\ ret # None => trace.output[1].columns = ret[1].columns

\* both returned a table of two columns and two rows whose first column holds
\* two different values: the draws of the stream differ from cell to cell
C23_Witness ==
    /\ BothCalled
    /\ ret # None
    /\ trace.output # None
    /\ Len(ret[1].columns) = 2
    /\ NRows(ret[1]) = 2
    /\ ret[1].columns[1].values[1] # ret[1].columns[1].values[2]
    /\ trace.output[1].columns = ret[1].columns

----------------------------------------------------------------------------
(* Properties of what the AI panel shows *)

\* the panel shows this kind of message for the feature
Shows(msgs, kind, feature) ==
    \E m \in 1..Len(msgs) : msgs[m].kind = kind /\ msgs[m].text[1] = feature

ShowsText(msgs, feature, text) ==
    \E m \in 1..Len(msgs) : msgs[m] = Msg("markdown", <<feature, text>>)

\* C24: after a press of a feature's button the panel shows, for that
\* feature, the outcome of this most recent request: the generated text when
\* the request succeeded, the error (and no text) when it failed, also when an
\* earlier request for the feature had succeeded.
C24_LatestOutcomeShown ==
    [][\A f \in Features :
          op' = f =>
             IF ~Falsy(trace'.value)
             THEN ShowsText(messages', f, trace'.value[1])
             ELSE /\ Shows(messages', "error", f)
                  /\ ~Shows(messages', "markdown", f)]_vars

----------------------------------------------------------------------------
(* Properties of the memoized LLM functions *)

\* the (data_hash, api_key) pair the panel calls the cached functions with
PanelKey == <<generate_data_hash(ret[1]), world.api_key>>

\* the cached function of the feature has returned None for the pair less
\* than 30 minutes ago
NoneMemoized(f) ==
    \E e \in cache.llm :
        /\ e.fn = f
        /\ e.key = PanelKey
        /\ e.value = None
        /\ now - e.at < LLM_CACHE_TTL

\* C25: once _cached_llm_insights (or the risk or quality function) has
\* returned None for a (data_hash, api_key) pair, a repeat request with the
\* same pair within the 30-minute TTL returns None, issues no API request and
\* leaves the cache as it is.
C25_FailureMemoized ==
    [][\A f \in Features :
          (op' = f /\ NoneMemoized(f)) =>
             /\ trace'.value = None
             /\ trace'.requests = 0
             /\ cache' = cache]_vars

\* a press answered from a memoized None: the session holds a dataset and the
\* service has a client, yet no service was built and no request went out
C25_Witness ==
    /\ op = "insights"
    /\ session.df # None
    /\ NoneMemoized("insights")
    /\ trace.service = None
    /\ trace.requests = 0
    /\ trace.value = None
    /\ llm_session.llm_errors["insights"] # None

----------------------------------------------------------------------------
(* Properties of the table behind an AI request *)

\* C26: whenever a press sends a request, the table summarised in the prompt
\* is the predictions table passed to display_prediction_insights, the one
\* whose content hash is in the key the response is stored under; so a
\* cached response is only ever returned for the table it was computed from.
C26_SentTableIsHashedTable ==
    [][\A f \in Features :
          (op' = f /\ trace'.requests > 0) =>
             /\ trace'.output # None
             /\ trace'.output[1].columns = ret[1].columns
             /\ generate_data_hash(trace'.output[1]) = PanelKey[1]]_vars

====
